---- MODULE Spec2Model ----
(***************************************************************************)
(* The request handler of src/index.js (a Cloudflare Worker in front of a  *)
(* chat-completion API) as a state machine.  A handler invocation runs     *)
(* without interruption between two awaits, so there is one action per     *)
(* segment of fetch / validateUserAndDeductTokens / getAccessToken that    *)
(* lies between two suspension points.  The ledger store (Firestore), the  *)
(* token endpoint and the completion API are the environment: each answer  *)
(* is drawn from the outcomes the code distinguishes.                      *)
(***************************************************************************)
EXTENDS Integers, Sequences, FiniteSets, TLC

\* ------------------------------------------------------------ constants
\* const windowMs = 60000; const maxRequests = 10;
windowMs == 60000
maxRequests == 10

\* ------------------------------------------------------------ bounds
\* handler invocations that may be in flight at once (Spec)
NReq == 2
\* largest initial tokensRemaining of a ledger document (Spec)
MaxUnits == 2
\* largest initial tokensRemaining of a ledger document (SpecSeq)
SeqUnits == 22
\* clock advances in one behaviour (SpecSeq)
MaxTicks == 2
\* clock advances in one behaviour (Spec, SpecSeqOk)
MaxConcTicks == 1
\* largest initial tokensRemaining of a ledger document (SpecSeqOk)
OkUnits == 3
\* identified requests counted per identity in one behaviour (SpecSeqOk)
MaxAC == 5
\* initial tokensRemaining of the busier identity's document (SpecTwo)
TwoUnits == 11

Req == 1..NReq
SeqReq == {1}
\* the slots of the overlapping invocations (SpecOverlap)
OverlapReq == {1, 2}
Users == {"u1", "u2"}
\* the identity the requests of the specifications carry
Metered == {"u1"}
\* a falsy userToken (absent, null, "") is the anonymous caller
Anonymous == ""
\* an absent JSON field is <<>>, a present one <<v>>
Absent == <<>>

VARIABLES
  now,          \* Date.now()
  ticks,        \* clock advances so far
  ledger,       \* the store: user -> fields of the document users/<user>
  RATE_LIMITS,  \* the Map: user -> Absent or <<[count, resetTime]>>
  pc,           \* slot -> the await the invocation is suspended at
  req,          \* slot -> the request: method, body, userToken, messages
  loc,          \* slot -> locals of the invocation
  resp,         \* slot -> the Response returned (status 0: none yet)
  calls,        \* slot -> external calls issued and map writes made
  admitLog,     \* user -> times of the limiter's admissions, oldest first
  closed,       \* user -> Absent or <<the entry the last rollover replaced>>
  acDone,       \* user -> identified requests whose Access Control ended
                \*         (SpecSeqOk)
  acPass,       \* user -> of these, the ones Access Control admitted
  initUnits     \* user -> tokensRemaining || 0 of the initial document

vars == <<now, ticks, ledger, RATE_LIMITS, pc, req, loc, resp, calls,
          admitLog, closed, acDone, acPass, initUnits>>

\* ------------------------------------------------------------ helpers
\* x?.integerValue || 0
IntegerValueOr0(f) == IF f = Absent THEN 0 ELSE f[1]

Response(status, error) == [status |-> status, error |-> error]
NoResponse == Response(0, "")
Err402 == Response(402, "Insufficient tokens")
Err405 == Response(405, "Method not allowed")
Err429 == Response(429, "Rate limit exceeded. Please wait 1 minute.")
Err500 == Response(500, "AI service temporarily unavailable. Please try again.")
Ok200 == Response(200, "")

NoRequest == [method |-> "", body |-> "", userToken |-> Anonymous, messages |-> "",
              authorization |-> "missing", model |-> Absent, max_tokens |-> Absent]
\* signer, read, write: how the call settled ("" before it has); observed:
\* the tokensRemaining field of the document read; rlCount, rlWindow: the
\* count the limiter found (after lookup and reset) and the resetTime of its
\* window when it admitted the request (-1: it has not); upStatus: the
\* completion API's status; model, max_tokens: the values line 29 destructures
NoLocals == [model |-> "", max_tokens |-> 0,
             signer |-> "", read |-> "", observed |-> Absent,
             tokensRemaining |-> 0, totalTokensUsed |-> 0, write |-> "",
             hasTokens |-> "", rlCount |-> -1, rlWindow |-> -1, upStatus |-> 0]
NoCalls == [signer |-> 0, reads |-> 0, writes |-> 0, rl |-> 0, upstream |-> 0]

\* messages: undefined, a non-array value, [], a non-empty array
MessageKinds == {"absent", "notseq", "empty", "ok"}
\* the two kinds the code tells apart (messages.length throws or not)
LengthKinds == {"absent", "ok"}
\* The requests told apart by the handler: a preflight, another non-POST method
\* (neither body is read), a POST whose body request.json() rejects or that is
\* not an object, and a POST with the destructured fields userToken and messages.
\* The Authorization header is sent or not, matching a secret or not: the
\* handler does not read it. model and max_tokens are optional fields.
Requests(users, kinds, options) ==
  {[NoRequest EXCEPT !.method = m] : m \in {"OPTIONS", "GET"}}
  \cup {[NoRequest EXCEPT !.method = "POST", !.body = "malformed"]}
  \cup {[method |-> "POST", body |-> "json", userToken |-> u, messages |-> ms,
         authorization |-> o.authorization, model |-> o.model,
         max_tokens |-> o.max_tokens] :
          u \in users \cup {Anonymous}, ms \in kinds, o \in options}

\* a request without Authorization header that leaves model and max_tokens out
PlainOptions == {[authorization |-> "missing", model |-> Absent, max_tokens |-> Absent]}
AllOptions ==
  [authorization : {"missing", "mismatch", "match"},
   model : {Absent, <<"gpt-4">>}, max_tokens : {Absent, <<100>>}]

\* a default of another value
MaxTokensOrDefault_other(f) == IF f = Absent THEN 150 ELSE f[1]

\* line 29: max_tokens = 500 (the default applies to an undefined field)
MaxTokensOrDefault(f) == IF f = Absent THEN 500 ELSE f[1]

\* line 29: model = 'gpt-3.5-turbo'
ModelOrDefault(f) == IF f = Absent THEN "gpt-3.5-turbo" ELSE f[1]

\* line 29: the destructured locals of slot r's request
Destructured(r) ==
  [loc[r] EXCEPT !.model = ModelOrDefault(req[r].model),
                 !.max_tokens = MaxTokensOrDefault(req[r].max_tokens)]

\* lines 93-97: model and max_tokens of the completion request's body
UpstreamBody(r) == [model |-> loc[r].model, max_tokens |-> loc[r].max_tokens]

InFlight(r) == pc[r] \notin {"idle", "done"}

Respond(r, response) ==
  /\ resp' = [resp EXCEPT ![r] = response]
  /\ pc' = [pc EXCEPT ![r] = "done"]

\* ------------------------------------------------------------ outcomes
\* getAccessToken: a token, tokenData.access_token undefined (the exchange
\* answered without one), or an exception (key material, signing, transport)
SignerOutcomes == {"valid", "undefined", "throw"}
\* a fetch of the ledger document: response.ok, !response.ok, or a rejection
StoreOutcomes == {"ok", "notok", "throw"}
\* the completion API: ok with a JSON body, ok with a body json() rejects,
\* a non-success status, or a transport failure
UpstreamOutcomes == {<<"ok", 200>>, <<"badjson", 200>>, <<"notok", 429>>, <<"throw", 0>>}

\* ------------------------------------------------------------ ledger
\* a store-side decrement of the current document (what the code does not do)
PatchDocument_atomic(doc, l) ==
  [tokensRemaining |-> <<IntegerValueOr0(doc.tokensRemaining) - 1>>,
   totalTokensUsed |-> <<IntegerValueOr0(doc.totalTokensUsed) + 1>>]

\* the deduction forgotten
PatchDocument_nodeduct(doc, l) ==
  [tokensRemaining |-> <<l.tokensRemaining>>,
   totalTokensUsed |-> <<l.totalTokensUsed + 1>>]

\* lines 163-169: the PATCH body, built from the values read before the
\* await; the store replaces the document's fields with it. lastTokenUse is
\* written and never read, it is left out.
PatchDocument(doc, l) ==
  [tokensRemaining |-> <<l.tokensRemaining - 1>>,
   totalTokensUsed |-> <<l.totalTokensUsed + 1>>]

\* the check of line 152 left out
HasNoTokens_unchecked(tokensRemaining) == FALSE

\* tokensRemaining < 0
HasNoTokens_strict(tokensRemaining) == tokensRemaining < 0

\* line 152: if (tokensRemaining <= 0) return false
HasNoTokens(tokensRemaining) == tokensRemaining <= 0

\* line 143: if (!userResponse.ok) return false (a rejected fetch is caught at 180)
ReadSucceeded(o) == o = "ok"

\* only a rejected fetch taken for a failure
WriteSucceeded_status(o) == o # "throw"

\* the PATCH's answer not looked at
WriteSucceeded_unchecked(o) == TRUE

\* line 172: if (!updateResponse.ok) return false (a rejected fetch is caught at 180)
WriteSucceeded(o) == o = "ok"

\* ------------------------------------------------------------ rate limiter
\* the entry never found (a key that does not match the one stored under)
LookupLimits_fresh(stored, t) == [count |-> 0, resetTime |-> t + windowMs]

\* lines 54-57: RATE_LIMITS.get(userKey) || { count: 0, resetTime: now + windowMs }
LookupLimits(stored, t) ==
  IF stored = Absent THEN [count |-> 0, resetTime |-> t + windowMs] ELSE stored[1]

\* now >= userLimits.resetTime
WindowExpired_inclusive(userLimits, t) == t >= userLimits.resetTime

\* the window's start taken for its end
WindowExpired_start(userLimits, t) == t > userLimits.resetTime - windowMs

\* line 60: if (now > userLimits.resetTime)
WindowExpired(userLimits, t) == t > userLimits.resetTime

\* line 61 left out: the window restarts, the count stays
ResetIfExpired_keepCount(userLimits, t) ==
  IF WindowExpired(userLimits, t)
  THEN [count |-> userLimits.count, resetTime |-> t + windowMs]
  ELSE userLimits

\* lines 60-63: reset counter if window expired
ResetIfExpired(userLimits, t) ==
  IF WindowExpired(userLimits, t)
  THEN [count |-> 0, resetTime |-> t + windowMs]
  ELSE userLimits

\* userLimits.count > maxRequests
LimitExceeded_late(userLimits) == userLimits.count > maxRequests

\* line 66: if (userLimits.count >= maxRequests)
LimitExceeded(userLimits) == userLimits.count >= maxRequests

\* line 79: userLimits.count++
Increment(userLimits) == [userLimits EXCEPT !.count = @ + 1]

\* ------------------------------------------------------------ fetch
\* lines 4-29: CORS preflight, method check, then await request.json()
fetch_start(r, users, kinds, options) ==
  /\ pc[r] = "idle"
  /\ \E q \in Requests(users, kinds, options) :
       /\ q.userToken # Anonymous => acDone[q.userToken] < MaxAC
       /\ req' = [req EXCEPT ![r] = q]
       /\ IF q.method = "OPTIONS" THEN Respond(r, Ok200)
          ELSE IF q.method # "POST" THEN Respond(r, Err405)
          ELSE /\ pc' = [pc EXCEPT ![r] = "json"]
               /\ resp' = resp
  /\ UNCHANGED <<now, ticks, ledger, RATE_LIMITS, loc, calls, admitLog, closed,
                 acDone, acPass, initUnits>>

\* lines 84-98: the usage log reads messages.length (a TypeError when messages
\* is undefined, caught at line 113), then the completion API is called.
\* c is the slot's call record as the segment has left it so far.
LogAndForward(r, c) ==
  IF req[r].messages = "absent"
  THEN /\ Respond(r, Err500)
       /\ calls' = [calls EXCEPT ![r] = c]
  ELSE /\ pc' = [pc EXCEPT ![r] = "upstream"]
       /\ resp' = resp
       /\ calls' = [calls EXCEPT ![r] = [c EXCEPT !.upstream = @ + 1]]

\* request.json() has settled. Lines 29-33, then for an identified request
\* validateUserAndDeductTokens (129-135) up to getAccessToken's first await
\* (187-229); for an anonymous one straight on to lines 84-98.
fetch_body(r) ==
  /\ pc[r] = "json"
  /\ IF req[r].body = "malformed"
     THEN /\ Respond(r, Err500)
          /\ calls' = calls
     ELSE IF req[r].userToken # Anonymous
     THEN /\ pc' = [pc EXCEPT ![r] = "signer"]
          /\ resp' = resp
          /\ calls' = [calls EXCEPT ![r].signer = @ + 1]
     ELSE LogAndForward(r, calls[r])
  /\ loc' = IF req[r].body = "malformed" THEN loc
            ELSE [loc EXCEPT ![r] = Destructured(r)]
  /\ UNCHANGED <<now, ticks, ledger, RATE_LIMITS, req, admitLog, closed,
                 acDone, acPass, initUnits>>

\* Access Control has ended for slot r's request, admitting it (by = 1) or
\* not (by = 0). The requests are counted where the environment is reliable.
Counted(count, r, by, reliable) ==
  IF reliable THEN [count EXCEPT ![req[r].userToken] = @ + by] ELSE count

\* validateUserAndDeductTokens returns false: lines 34-44 answer 402
Deny402(r, reliable) ==
  /\ Respond(r, Err402)
  /\ acDone' = Counted(acDone, r, 1, reliable)
  /\ acPass' = acPass

\* getAccessToken has settled (lines 229-266). On a token (or an undefined
\* one, the exchange's JSON is not checked) lines 135-141 issue the GET; an
\* exception is rethrown at 264 and caught at 180.
getAccessToken_return(r, outcomes) ==
  /\ pc[r] = "signer"
  /\ \E o \in outcomes :
       IF o = "throw"
       THEN /\ Deny402(r, FALSE)
            /\ loc' = [loc EXCEPT ![r].signer = o, ![r].hasTokens = "false"]
            /\ calls' = calls
       ELSE /\ pc' = [pc EXCEPT ![r] = "read"]
            /\ loc' = [loc EXCEPT ![r].signer = o]
            /\ calls' = [calls EXCEPT ![r].reads = @ + 1]
            /\ UNCHANGED <<resp, acDone, acPass>>
  /\ UNCHANGED <<now, ticks, ledger, RATE_LIMITS, req, admitLog, closed, initUnits>>

\* The GET has settled (lines 136-170). The store refuses a request that
\* carries no token. On a document with tokens left the PATCH is issued.
ledgerRead_return(r, outcomes) ==
  /\ pc[r] = "read"
  /\ \E o \in (IF loc[r].signer = "valid" THEN outcomes ELSE {"notok", "throw"}) :
       LET doc == ledger[req[r].userToken]
           tr == IntegerValueOr0(doc.tokensRemaining)
           tu == IntegerValueOr0(doc.totalTokensUsed)
       IN IF ~ReadSucceeded(o)
          THEN /\ Deny402(r, FALSE)
               /\ loc' = [loc EXCEPT ![r].read = o, ![r].hasTokens = "false"]
               /\ calls' = calls
          ELSE IF HasNoTokens(tr)
          THEN /\ Deny402(r, outcomes = {"ok"})
               /\ loc' = [loc EXCEPT ![r].read = o,
                                     ![r].observed = doc.tokensRemaining,
                                     ![r].tokensRemaining = tr,
                                     ![r].totalTokensUsed = tu,
                                     ![r].hasTokens = "false"]
               /\ calls' = calls
          ELSE /\ pc' = [pc EXCEPT ![r] = "write"]
               /\ loc' = [loc EXCEPT ![r].read = o,
                                     ![r].observed = doc.tokensRemaining,
                                     ![r].tokensRemaining = tr,
                                     ![r].totalTokensUsed = tu]
               /\ calls' = [calls EXCEPT ![r].writes = @ + 1]
               /\ UNCHANGED <<resp, acDone, acPass>>
  /\ UNCHANGED <<now, ticks, ledger, RATE_LIMITS, req, admitLog, closed, initUnits>>

\* The PATCH has settled (lines 157-178): the store has applied it exactly
\* when it answers ok; validateUserAndDeductTokens returns true at line 178.
ledgerWrite_return(r, outcomes) ==
  /\ pc[r] = "write"
  /\ \E o \in outcomes :
       LET u == req[r].userToken
       IN /\ ledger' = IF o = "ok"
                       THEN [ledger EXCEPT ![u] = PatchDocument(ledger[u], loc[r])]
                       ELSE ledger
          /\ IF ~WriteSucceeded(o)
             THEN /\ Deny402(r, FALSE)
                  /\ loc' = [loc EXCEPT ![r].write = o, ![r].hasTokens = "false"]
             ELSE /\ loc' = [loc EXCEPT ![r].write = o, ![r].hasTokens = "true"]
                  /\ pc' = [pc EXCEPT ![r] = "rate"]
                  /\ acDone' = Counted(acDone, r, 1, outcomes = {"ok"})
                  /\ acPass' = Counted(acPass, r, 1, outcomes = {"ok"})
                  /\ resp' = resp
  /\ UNCHANGED <<now, ticks, RATE_LIMITS, req, calls, admitLog, closed, initUnits>>

\* hasTokens is true: lines 48-81 run without an await, then lines 84-98.
\* userLimits is the stored object when there is one, so the reset of lines
\* 61-62 changes the entry in the map even when line 66 then rejects.
fetch_rateLimit(r) ==
  /\ pc[r] = "rate"
  /\ LET u == req[r].userToken
         stored == RATE_LIMITS[u]
         userLimits == ResetIfExpired(LookupLimits(stored, now), now)
     IN /\ closed' = IF stored # Absent /\ WindowExpired(stored[1], now)
                     THEN [closed EXCEPT ![u] = stored]
                     ELSE closed
        /\ IF LimitExceeded(userLimits)
           THEN /\ Respond(r, Err429)
                /\ RATE_LIMITS' = IF stored = Absent THEN RATE_LIMITS
                                  ELSE [RATE_LIMITS EXCEPT ![u] = <<userLimits>>]
                /\ calls' = [calls EXCEPT ![r].rl =
                                        IF stored # Absent /\ stored # <<userLimits>> THEN 1 ELSE 0]
                /\ UNCHANGED <<loc, admitLog>>
           ELSE /\ RATE_LIMITS' = [RATE_LIMITS EXCEPT ![u] = <<Increment(userLimits)>>]
                /\ loc' = [loc EXCEPT ![r].rlCount = userLimits.count,
                                      ![r].rlWindow = userLimits.resetTime]
                /\ admitLog' = [admitLog EXCEPT ![u] = Append(@, now)]
                /\ LogAndForward(r, [calls[r] EXCEPT !.rl = 1])
  /\ UNCHANGED <<now, ticks, ledger, req, acDone, acPass, initUnits>>

\* lines 100-124: what the handler answers to the completion API's outcome
UpstreamResponse(o) ==
  IF o[1] = "ok" THEN Ok200 ELSE Err500

\* a failed completion call tried again, up to three calls
fetch_upstream_retry(r) ==
  /\ pc[r] = "upstream"
  /\ \E o \in UpstreamOutcomes :
       /\ loc' = [loc EXCEPT ![r].upStatus = o[2]]
       /\ IF o[1] # "ok" /\ calls[r].upstream < 3
          THEN /\ calls' = [calls EXCEPT ![r].upstream = @ + 1]
               /\ UNCHANGED <<pc, resp>>
          ELSE /\ Respond(r, UpstreamResponse(o))
               /\ calls' = calls
  /\ UNCHANGED <<now, ticks, ledger, RATE_LIMITS, req, admitLog, closed,
                 acDone, acPass, initUnits>>

\* the unit given back when the completion call fails
fetch_upstream_refund(r) ==
  /\ pc[r] = "upstream"
  /\ \E o \in UpstreamOutcomes :
       /\ loc' = [loc EXCEPT ![r].upStatus = o[2]]
       /\ Respond(r, UpstreamResponse(o))
       /\ ledger' = IF o[1] # "ok" /\ req[r].userToken # Anonymous
                     THEN [ledger EXCEPT ![req[r].userToken].tokensRemaining =
                                           <<IntegerValueOr0(@) + 1>>]
                     ELSE ledger
  /\ UNCHANGED <<now, ticks, RATE_LIMITS, req, calls, admitLog, closed,
                 acDone, acPass, initUnits>>

\* The completion call has settled (lines 87-124).
fetch_upstream(r) ==
  /\ pc[r] = "upstream"
  /\ \E o \in UpstreamOutcomes :
       /\ loc' = [loc EXCEPT ![r].upStatus = o[2]]
       /\ Respond(r, UpstreamResponse(o))
  /\ UNCHANGED <<now, ticks, ledger, RATE_LIMITS, req, calls, admitLog, closed,
                 acDone, acPass, initUnits>>

\* ------------------------------------------------------------ part_001
\* The variant of the handler without a ledger (src/unnamed/part_001): the
\* limiter runs in the segment that follows request.json().

\* error.message of what the try block can throw: request.json() rejecting,
\* messages.length of undefined, a rejected fetch, openaiResponse.json() rejecting
ErrorMessage ==
  [json |-> "Unexpected token in JSON",
   length |-> "Cannot read properties of undefined (reading 'length')",
   transport |-> "fetch failed",
   badjson |-> "Unexpected end of JSON input"]

\* part_001 lines 93-100: status 500 with error: error.message
part001_Caught(kind) == Response(500, ErrorMessage[kind])

\* part_001 lines 52-60
part001_Err429 ==
  Response(429, "Rate limit exceeded. Please wait 1 minute or upgrade to premium.")

\* part_001 lines 69-83
part001_LogAndForward(r, c) ==
  IF req[r].messages = "absent"
  THEN /\ Respond(r, part001_Caught("length"))
       /\ calls' = [calls EXCEPT ![r] = c]
  ELSE /\ pc' = [pc EXCEPT ![r] = "upstream"]
       /\ resp' = resp
       /\ calls' = [calls EXCEPT ![r] = [c EXCEPT !.upstream = @ + 1]]

\* request.json() has settled: part_001 lines 30-83
part001_fetch_body(r) ==
  /\ pc[r] = "json"
  /\ IF req[r].body = "malformed"
     THEN /\ Respond(r, part001_Caught("json"))
          /\ UNCHANGED <<RATE_LIMITS, loc, calls, admitLog, closed>>
     ELSE IF req[r].userToken = Anonymous
     THEN /\ part001_LogAndForward(r, calls[r])
          /\ UNCHANGED <<RATE_LIMITS, loc, admitLog, closed>>
     ELSE LET u == req[r].userToken
              stored == RATE_LIMITS[u]
              userLimits == ResetIfExpired(LookupLimits(stored, now), now)
          IN /\ closed' = IF stored # Absent /\ WindowExpired(stored[1], now)
                          THEN [closed EXCEPT ![u] = stored]
                          ELSE closed
             /\ IF LimitExceeded(userLimits)
                THEN /\ Respond(r, part001_Err429)
                     /\ RATE_LIMITS' = IF stored = Absent THEN RATE_LIMITS
                                       ELSE [RATE_LIMITS EXCEPT ![u] = <<userLimits>>]
                     /\ UNCHANGED <<loc, calls, admitLog>>
                ELSE /\ RATE_LIMITS' = [RATE_LIMITS EXCEPT ![u] = <<Increment(userLimits)>>]
                     /\ loc' = [loc EXCEPT ![r].rlCount = userLimits.count,
                                           ![r].rlWindow = userLimits.resetTime]
                     /\ admitLog' = [admitLog EXCEPT ![u] = Append(@, now)]
                     /\ part001_LogAndForward(r, [calls[r] EXCEPT !.rl = 1])
  /\ UNCHANGED <<now, ticks, ledger, req, acDone, acPass, initUnits>>

\* part_001 lines 85-100: openaiResponse.ok is not looked at, the body of any
\* answer that parses is returned with status 200
part001_UpstreamResponse(o) ==
  IF o[1] \in {"ok", "notok"} THEN Ok200
  ELSE IF o[1] = "badjson" THEN part001_Caught("badjson")
  ELSE part001_Caught("transport")

\* The completion call has settled (part_001 lines 72-100).
part001_fetch_upstream(r) ==
  /\ pc[r] = "upstream"
  /\ \E o \in UpstreamOutcomes :
       /\ loc' = [loc EXCEPT ![r].upStatus = o[2]]
       /\ Respond(r, part001_UpstreamResponse(o))
  /\ UNCHANGED <<now, ticks, ledger, RATE_LIMITS, req, calls, admitLog, closed,
                 acDone, acPass, initUnits>>

\* ------------------------------------------------------------ environment
\* Admissions older than a window cannot share a span shorter than windowMs
\* with a later one: the log drops them.
Recent(log, t) == SelectSeq(log, LAMBDA x : t - x < windowMs)

\* Date.now() advances by one of steps
Tick(bound, steps) ==
  /\ ticks < bound
  /\ \E d \in steps :
       /\ now' = now + d
       /\ admitLog' = [u \in Users |-> Recent(admitLog[u], now + d)]
  /\ ticks' = ticks + 1
  /\ UNCHANGED <<ledger, RATE_LIMITS, pc, req, loc, resp, calls, closed,
                 acDone, acPass, initUnits>>

\* the invocation is over; the slot takes the next request
Recycle(r) ==
  /\ pc[r] = "done"
  /\ pc' = [pc EXCEPT ![r] = "idle"]
  /\ req' = [req EXCEPT ![r] = NoRequest]
  /\ loc' = [loc EXCEPT ![r] = NoLocals]
  /\ resp' = [resp EXCEPT ![r] = NoResponse]
  /\ calls' = [calls EXCEPT ![r] = NoCalls]
  /\ UNCHANGED <<now, ticks, ledger, RATE_LIMITS, admitLog, closed,
                 acDone, acPass, initUnits>>

\* ------------------------------------------------------------ specifications
Documents(units) ==
  {[tokensRemaining |-> Absent, totalTokensUsed |-> Absent]}
  \cup {[tokensRemaining |-> <<n>>, totalTokensUsed |-> <<0>>] : n \in units}

InitWith(ledgers) ==
  /\ now = 0
  /\ ticks = 0
  /\ ledger \in ledgers
  /\ RATE_LIMITS = [u \in Users |-> Absent]
  /\ pc = [r \in Req |-> "idle"]
  /\ req = [r \in Req |-> NoRequest]
  /\ loc = [r \in Req |-> NoLocals]
  /\ resp = [r \in Req |-> NoResponse]
  /\ calls = [r \in Req |-> NoCalls]
  /\ admitLog = [u \in Users |-> <<>>]
  /\ closed = [u \in Users |-> Absent]
  /\ acDone = [u \in Users |-> 0]
  /\ acPass = [u \in Users |-> 0]
  /\ initUnits = [u \in Users |-> IntegerValueOr0(ledger[u].tokensRemaining)]

\* the documents of the identities a specification leaves unused are empty
OnlyFor(users, docs) ==
  {l \in [Users -> docs] : \A u \in Users \ users : l[u].tokensRemaining = Absent}

\* Concurrent invocations: every slot handles one request, the slots are
\* taken in order, and any invocation may take its next step at any time.
\* The clock may jump past a window.
Init == InitWith(OnlyFor(Metered, Documents((-1)..MaxUnits)))

Next ==
  \/ \E r \in Req : (\A s \in 1..(r - 1) : pc[s] # "idle") /\ fetch_start(r, Metered, LengthKinds, PlainOptions)
  \/ \E r \in Req : fetch_body(r)
  \/ \E r \in Req : getAccessToken_return(r, SignerOutcomes)
  \/ \E r \in Req : ledgerRead_return(r, StoreOutcomes)
  \/ \E r \in Req : ledgerWrite_return(r, StoreOutcomes)
  \/ \E r \in Req : fetch_rateLimit(r)
  \/ \E r \in Req : fetch_upstream(r)
  \/ Tick(MaxConcTicks, {windowMs + 1})

Spec == Init /\ [][Next]_vars

\* Sequential calls: one invocation at a time, each run to its response
\* before the next request is taken.
InitSeq == InitWith(OnlyFor(Metered, Documents({0, 1, SeqUnits})))

NextSeq ==
  \/ \E r \in SeqReq : fetch_start(r, Metered, LengthKinds, PlainOptions)
  \/ \E r \in SeqReq : fetch_body(r)
  \/ \E r \in SeqReq : getAccessToken_return(r, SignerOutcomes)
  \/ \E r \in SeqReq : ledgerRead_return(r, StoreOutcomes)
  \/ \E r \in SeqReq : ledgerWrite_return(r, StoreOutcomes)
  \/ \E r \in SeqReq : fetch_rateLimit(r)
  \/ \E r \in SeqReq : fetch_upstream(r)
  \/ \E r \in SeqReq : Recycle(r)
  \/ Tick(MaxTicks, {1, windowMs})

SpecSeq == InitSeq /\ [][NextSeq]_vars

\* Sequential calls with a signer and a store that never fail: Access
\* Control's requests are counted.
InitSeqOk == InitWith(OnlyFor(Metered, Documents(0..OkUnits)))

NextSeqOk ==
  \/ \E r \in SeqReq : fetch_start(r, Metered, MessageKinds, AllOptions)
  \/ \E r \in SeqReq : fetch_body(r)
  \/ \E r \in SeqReq : getAccessToken_return(r, {"valid"})
  \/ \E r \in SeqReq : ledgerRead_return(r, {"ok"})
  \/ \E r \in SeqReq : ledgerWrite_return(r, {"ok"})
  \/ \E r \in SeqReq : fetch_rateLimit(r)
  \/ \E r \in SeqReq : fetch_upstream(r)
  \/ \E r \in SeqReq : Recycle(r)
  \/ Tick(MaxConcTicks, {windowMs + 1})

SpecSeqOk == InitSeqOk /\ [][NextSeqOk]_vars

\* Sequential calls to the part_001 variant; the ledger is not used.
InitRateOnly == InitWith(OnlyFor({}, Documents({0})))

NextRateOnly ==
  \/ \E r \in SeqReq : fetch_start(r, Metered, MessageKinds, PlainOptions)
  \/ \E r \in SeqReq : part001_fetch_body(r)
  \/ \E r \in SeqReq : part001_fetch_upstream(r)
  \/ \E r \in SeqReq : Recycle(r)
  \/ Tick(MaxTicks, {1, windowMs})

SpecRateOnly == InitRateOnly /\ [][NextRateOnly]_vars

\* Overlapping invocations with a signer and a store that never fail: a slot
\* takes a new request when its invocation is over, so that an invocation
\* may stay suspended while others run from start to end.
InitOverlap == InitWith(OnlyFor(Metered, Documents(0..MaxUnits)))

NextOverlap ==
  \/ \E r \in OverlapReq : fetch_start(r, Metered, {"ok"}, PlainOptions)
  \/ \E r \in OverlapReq : fetch_body(r)
  \/ \E r \in OverlapReq : getAccessToken_return(r, {"valid"})
  \/ \E r \in OverlapReq : ledgerRead_return(r, {"ok"})
  \/ \E r \in OverlapReq : ledgerWrite_return(r, {"ok"})
  \/ \E r \in OverlapReq : fetch_rateLimit(r)
  \/ \E r \in OverlapReq : fetch_upstream(r)
  \/ \E r \in OverlapReq : Recycle(r)

SpecOverlap == InitOverlap /\ [][NextOverlap]_vars

\* Sequential calls of two identities with a signer that never fails: the
\* balance of the one outlasts the limiter's window, the other has a few units.
InitTwo ==
  InitWith({[u \in Users |->
              [tokensRemaining |-> <<IF u \in Metered THEN TwoUnits ELSE MaxUnits>>,
               totalTokensUsed |-> <<0>>]]})

NextTwo ==
  \/ \E r \in SeqReq : fetch_start(r, Users, {"ok"}, PlainOptions)
  \/ \E r \in SeqReq : fetch_body(r)
  \/ \E r \in SeqReq : getAccessToken_return(r, {"valid"})
  \/ \E r \in SeqReq : ledgerRead_return(r, {"ok"})
  \/ \E r \in SeqReq : ledgerWrite_return(r, {"ok", "notok"})
  \/ \E r \in SeqReq : fetch_rateLimit(r)
  \/ \E r \in SeqReq : fetch_upstream(r)
  \/ \E r \in SeqReq : Recycle(r)
  \/ Tick(MaxConcTicks, {windowMs + 1})

SpecTwo == InitTwo /\ [][NextTwo]_vars

\* Concurrent invocations whose awaited calls all settle: request.json(),
\* the signer, the store and the completion API answer or fail in the end,
\* and a continuation that is ready runs. Requests need not arrive.
InitLive == InitWith(OnlyFor(Metered, Documents(0..1)))

NextLive ==
  \/ \E r \in Req : (\A s \in 1..(r - 1) : pc[s] # "idle") /\ fetch_start(r, Metered, LengthKinds, PlainOptions)
  \/ \E r \in Req : fetch_body(r)
  \/ \E r \in Req : getAccessToken_return(r, SignerOutcomes)
  \/ \E r \in Req : ledgerRead_return(r, StoreOutcomes)
  \/ \E r \in Req : ledgerWrite_return(r, StoreOutcomes)
  \/ \E r \in Req : fetch_rateLimit(r)
  \/ \E r \in Req : fetch_upstream(r)

Settles ==
  \A r \in Req :
    /\ WF_vars(fetch_body(r))
    /\ WF_vars(getAccessToken_return(r, SignerOutcomes))
    /\ WF_vars(ledgerRead_return(r, StoreOutcomes))
    /\ WF_vars(ledgerWrite_return(r, StoreOutcomes))
    /\ WF_vars(fetch_rateLimit(r))
    /\ WF_vars(fetch_upstream(r))

SpecLive == InitLive /\ [][NextLive]_vars /\ Settles

\* ------------------------------------------------------------ claims
Identified(r) == req[r].userToken # Anonymous
Min(a, b) == IF a <= b THEN a ELSE b

\* one of the four failures of C1 has happened to slot r's request
QuotaFailure(r) ==
  \/ loc[r].signer = "throw"
  \/ loc[r].read \in {"notok", "throw"}
  \/ loc[r].read = "ok" /\ loc[r].tokensRemaining <= 0
  \/ loc[r].write \in {"notok", "throw"}

\* C1: an identified request whose credential acquisition, ledger read or
\* ledger write failed, or that observed tokensRemaining <= 0, is answered 402
\* 'Insufficient tokens' and makes no completion call; a request that got no
\* access token makes none either and is answered 402 when it ends; and an
\* identified request makes a completion call only after its own ledger
\* write succeeded.
C1_FailClosed ==
  \A r \in Req : Identified(r) =>
    /\ QuotaFailure(r) =>
         pc[r] = "done" /\ resp[r] = Err402 /\ calls[r].upstream = 0
    /\ loc[r].signer = "undefined" =>
         calls[r].upstream = 0 /\ (pc[r] = "done" => resp[r] = Err402)
    /\ calls[r].upstream > 0 =>
         /\ loc[r].signer = "valid" /\ loc[r].read = "ok"
         /\ loc[r].write = "ok" /\ calls[r].writes = 1

\* one request denied 402 after its PATCH failed, another of the same
\* identity forwarded after its PATCH succeeded
C1_Witness ==
  \E r1, r2 \in Req :
    /\ Identified(r1) /\ req[r2].userToken = req[r1].userToken
    /\ loc[r1].write = "notok" /\ resp[r1] = Err402 /\ calls[r1].upstream = 0
    /\ loc[r2].write = "ok" /\ calls[r2].upstream = 1

\* C2: a request that read a document whose tokensRemaining is absent or
\* <= 0 is not admitted by validateUserAndDeductTokens and issues no PATCH.
C2_NoDeductWithoutTokens ==
  \A r \in Req :
    (loc[r].read = "ok" /\ (loc[r].observed = Absent \/ loc[r].observed[1] <= 0)) =>
      /\ loc[r].hasTokens = "false"
      /\ calls[r].writes = 0
      /\ loc[r].write = ""
      /\ (pc[r] = "done" /\ resp[r] = Err402)

\* a request took the identity's last token, the next one read 0 and was denied
C2_Witness ==
  \E r1, r2 \in Req :
    /\ Identified(r1) /\ req[r2].userToken = req[r1].userToken
    /\ loc[r1].hasTokens = "true" /\ loc[r1].observed = <<1>>
    /\ loc[r2].read = "ok" /\ loc[r2].observed = <<0>>
    /\ resp[r2] = Err402 /\ calls[r2].writes = 0

\* the admissions of u's log that fall in u's current window
InWindow(u) ==
  {i \in DOMAIN admitLog[u] : admitLog[u][i] >= RATE_LIMITS[u][1].resetTime - windowMs}

\* C3 as claimed: any span shorter than windowMs holds at most maxRequests
\* admissions of one identity.
C3_Original ==
  \A u \in Users : \A i, j \in DOMAIN admitLog[u] :
    (i <= j /\ admitLog[u][j] - admitLog[u][i] < windowMs) => j - i + 1 <= maxRequests

\* C3 amended: a span shorter than windowMs that lies in one window of the
\* identity (no rollover inside it) holds at most maxRequests admissions.
C3_WithinOneWindow ==
  \A u \in Users : RATE_LIMITS[u] # Absent =>
    \A i, j \in InWindow(u) :
      (i <= j /\ admitLog[u][j] - admitLog[u][i] < windowMs) => j - i + 1 <= maxRequests

\* a window used up, all its admissions in the log, and the next request rejected
C3_Witness ==
  \E u \in Users : \E r \in Req :
    /\ RATE_LIMITS[u] # Absent /\ RATE_LIMITS[u][1].count = maxRequests
    /\ Cardinality(InWindow(u)) = maxRequests
    /\ req[r].userToken = u /\ resp[r] = Err429

\* requests of u that Access Control has admitted (Spec: a slot serves one request)
AdmittedByAC(u) ==
  Cardinality({r \in Req : req[r].userToken = u /\ loc[r].hasTokens = "true"})

\* C4: when two requests of one identity were both admitted on the same
\* observed tokensRemaining, the identity has had more requests admitted than
\* its ledger has dropped.
C4_QuotaRace ==
  \A r1, r2 \in Req :
    ( /\ r1 # r2 /\ Identified(r1) /\ req[r2].userToken = req[r1].userToken
      /\ loc[r1].hasTokens = "true" /\ loc[r2].hasTokens = "true"
      /\ loc[r1].observed = loc[r2].observed ) =>
    AdmittedByAC(req[r1].userToken)
      > initUnits[req[r1].userToken]
          - IntegerValueOr0(ledger[req[r1].userToken].tokensRemaining)

\* the scenario of the claim: one token, two requests read 1, both are
\* admitted and forwarded, the ledger stands at 0
C4_Witness ==
  \E r1, r2 \in Req :
    /\ r1 # r2 /\ Identified(r1) /\ req[r2].userToken = req[r1].userToken
    /\ initUnits[req[r1].userToken] = 1
    /\ loc[r1].observed = <<1>> /\ loc[r2].observed = <<1>>
    /\ loc[r1].hasTokens = "true" /\ loc[r2].hasTokens = "true"
    /\ calls[r1].upstream = 1 /\ calls[r2].upstream = 1
    /\ ledger[req[r1].userToken].tokensRemaining = <<0>>

\* C5: sequential requests. A request Access Control admitted has issued one
\* PATCH and the ledger stands at the value it observed minus 1; with a
\* signer and a store that never fail, of m identified requests min(n, m)
\* were admitted and the ledger stands at n minus that number.
C5_OneUnitPerAdmission ==
  /\ \A r \in Req : loc[r].hasTokens = "true" =>
       /\ calls[r].writes = 1
       /\ ledger[req[r].userToken].tokensRemaining = <<loc[r].tokensRemaining - 1>>
  /\ \A u \in Users :
       /\ acPass[u] = Min(initUnits[u], acDone[u])
       /\ IntegerValueOr0(ledger[u].tokensRemaining) = initUnits[u] - acPass[u]

\* one token, three requests, one admitted
C5_Witness ==
  \E u \in Users :
    /\ initUnits[u] = 1 /\ acDone[u] = 3 /\ acPass[u] = 1
    /\ ledger[u].tokensRemaining = <<0>>

\* C6 as claimed: a request the completion API answered with a non-success
\* status is answered with that status.
C6_Original ==
  \A r \in Req :
    (pc[r] = "done" /\ loc[r].upStatus \notin {0, 200}) => resp[r].status = loc[r].upStatus

\* C7 as claimed: a POST whose messages are absent, not an array or empty is
\* answered 400 and has read and written no ledger document, changed no
\* rate-limit entry and called no completion API.
C7_Original ==
  \A r \in Req :
    (pc[r] = "done" /\ req[r].method = "POST" /\ req[r].body = "json"
       /\ req[r].messages \in {"absent", "notseq", "empty"}) =>
      /\ resp[r].status = 400
      /\ calls[r].reads = 0 /\ calls[r].writes = 0
      /\ calls[r].rl = 0 /\ calls[r].upstream = 0

\* C8: a limiter step that finds an entry with now > resetTime leaves the
\* entry at count 1, resetTime now + windowMs and admits the request; one
\* that finds an entry with now <= resetTime keeps resetTime and does not
\* lower count.
C8_Step ==
  \A r \in Req : (pc[r] = "rate" /\ pc'[r] # "rate") =>
    LET u == req[r].userToken
        stored == RATE_LIMITS[u]
    IN stored # Absent =>
         IF now > stored[1].resetTime
         THEN /\ RATE_LIMITS'[u] = <<[count |-> 1, resetTime |-> now + windowMs]>>
              /\ resp'[r].status # 429
              /\ loc'[r].rlCount = 0
              /\ admitLog'[u] = Append(admitLog[u], now)
         ELSE /\ RATE_LIMITS'[u][1].resetTime = stored[1].resetTime
              /\ RATE_LIMITS'[u][1].count \in {stored[1].count, stored[1].count + 1}
              /\ closed' = closed

C8_LazyRollover == [][C8_Step]_vars

\* a rollover has just replaced a used-up entry
C8_Witness ==
  \E u \in Users :
    /\ closed[u] # Absent /\ closed[u][1].count = maxRequests
    /\ RATE_LIMITS[u] = <<[count |-> 1, resetTime |-> now + windowMs]>>

\* some span shorter than windowMs holds n admissions of u or more
SpanHolds(u, n) ==
  \E i, j \in DOMAIN admitLog[u] :
    i <= j /\ admitLog[u][j] - admitLog[u][i] < windowMs /\ j - i + 1 >= n

\* a used-up window followed, at the first instant its rollover can come, by
\* a window used up at that same instant
TightStraddle(u) ==
  /\ closed[u] # Absent /\ RATE_LIMITS[u] # Absent
  /\ closed[u][1].count = maxRequests
  /\ RATE_LIMITS[u][1].count = maxRequests
  /\ RATE_LIMITS[u][1].resetTime = now + windowMs
  /\ now = closed[u][1].resetTime + 1

\* C9 as claimed: a straddle of two used-up windows puts 2 x maxRequests
\* admissions in a span shorter than windowMs.
C9_Original ==
  \A u \in Users : TightStraddle(u) => SpanHolds(u, 2 * maxRequests)

\* C9 amended: no span shorter than windowMs holds more than
\* 2 x maxRequests - 1 admissions of one identity.
C9_StraddleBound ==
  \A u \in Users : ~SpanHolds(u, 2 * maxRequests)

\* a straddle with 2 x maxRequests - 1 admissions in a span shorter than windowMs
C9_Witness ==
  \E u \in Users : TightStraddle(u) /\ SpanHolds(u, 2 * maxRequests - 1)

\* requests of u the limiter admitted in u's current window (Spec: a slot
\* serves one request)
AdmittedInWindow(u) ==
  {r \in Req : /\ req[r].userToken = u /\ loc[r].rlCount >= 0
               /\ loc[r].rlWindow = RATE_LIMITS[u][1].resetTime}

\* C10 as claimed: two requests of one identity in flight together, both
\* admitted by the limiter in one window, have read the same count and left
\* the stored count one above it.
C10_Original ==
  \A r1, r2 \in Req :
    ( /\ r1 # r2 /\ Identified(r1) /\ req[r2].userToken = req[r1].userToken
      /\ pc[r1] = "upstream" /\ pc[r2] = "upstream"
      /\ r1 \in AdmittedInWindow(req[r1].userToken)
      /\ r2 \in AdmittedInWindow(req[r1].userToken) ) =>
    /\ loc[r1].rlCount = loc[r2].rlCount
    /\ RATE_LIMITS[req[r1].userToken][1].count = loc[r1].rlCount + 1

\* C10 amended: the stored count of an identity is the number of requests
\* admitted in its current window, and no two of them have read the same count.
C10_NoLostUpdate ==
  \A u \in Users : RATE_LIMITS[u] # Absent =>
    /\ Cardinality(AdmittedInWindow(u)) = RATE_LIMITS[u][1].count
    /\ \A r1, r2 \in AdmittedInWindow(u) : r1 # r2 => loc[r1].rlCount # loc[r2].rlCount

\* two requests of one identity in flight together, both admitted: the
\* second found the first's increment
C10_Witness ==
  \E r1, r2 \in Req :
    /\ r1 # r2 /\ Identified(r1) /\ req[r2].userToken = req[r1].userToken
    /\ pc[r1] = "upstream" /\ pc[r2] = "upstream"
    /\ loc[r1].rlCount = 0 /\ loc[r2].rlCount = 1
    /\ RATE_LIMITS[req[r1].userToken][1].count = 2

\* C11 as claimed: a POST (its body well-formed, so that no other error
\* answers it) whose bearer credential is missing or does not match is
\* answered 401 and makes no completion call.
C11_Original ==
  \A r \in Req :
    (req[r].method = "POST" /\ req[r].body = "json" /\ req[r].messages = "ok"
       /\ req[r].authorization # "match") =>
      /\ calls[r].upstream = 0
      /\ pc[r] = "done" => resp[r].status = 401

\* C12: an anonymous POST makes no signer call and no ledger read or write,
\* never reaches the limiter and leaves no mark in the rate-limit map, and
\* (its messages present) is forwarded with the model and max_tokens it gave,
\* 'gpt-3.5-turbo' and 500 where it gave none.
C12_AnonymousBypass ==
  \A r \in Req :
    (req[r].method = "POST" /\ req[r].body = "json" /\ ~Identified(r)
       /\ pc[r] # "json") =>
      /\ calls[r].signer = 0 /\ calls[r].reads = 0 /\ calls[r].writes = 0
      /\ calls[r].rl = 0 /\ loc[r].rlCount = -1
      /\ pc[r] \in {"upstream", "done"}
      /\ req[r].messages # "absent" =>
           /\ calls[r].upstream = 1
           /\ UpstreamBody(r).model =
                (IF req[r].model = Absent THEN "gpt-3.5-turbo" ELSE req[r].model[1])
           /\ UpstreamBody(r).max_tokens =
                (IF req[r].max_tokens = Absent THEN 500 ELSE req[r].max_tokens[1])

\* an anonymous request that names neither field is forwarded while the map
\* holds an entry of an identity
C12_Witness ==
  \E r \in Req : \E u \in Users :
    /\ req[r].method = "POST" /\ req[r].body = "json" /\ ~Identified(r)
    /\ req[r].model = Absent /\ req[r].max_tokens = Absent
    /\ pc[r] = "upstream" /\ calls[r].upstream = 1
    /\ UpstreamBody(r) = [model |-> "gpt-3.5-turbo", max_tokens |-> 500]
    /\ RATE_LIMITS[u] # Absent /\ RATE_LIMITS[u][1].count = 1

\* C13 as claimed: every answer with status 500 carries the one generic
\* message, whatever was thrown.
C13_Original ==
  \A r \in Req :
    (pc[r] = "done" /\ resp[r].status = 500) => resp[r].error = Err500.error

\* C14 as claimed: a request whose ledger read or write the store refused
\* has asked the signer for a second token and issued that call a second
\* time before it was denied.
C14_Original ==
  \A r \in Req : pc[r] = "done" =>
    /\ loc[r].read = "notok" => calls[r].signer = 2 /\ calls[r].reads = 2
    /\ loc[r].write = "notok" => calls[r].signer = 2 /\ calls[r].writes = 2

\* the limiter's step of slot r, taken for a request Access Control admitted
AdmittedLimiterStep(r) ==
  /\ pc[r] = "rate" /\ pc'[r] # "rate"
  /\ loc[r].hasTokens = "true" /\ loc[r].write = "ok"

\* C15: a request answered 402 has not been through the limiter and has
\* written nothing to the rate-limit map; a request is at the limiter only
\* after its own ledger write succeeded; and the map changes in no step other
\* than the limiter step of an admitted request.
C15_AccessControlFrame ==
  /\ [](\A r \in Req :
          /\ resp[r] = Err402 => calls[r].rl = 0 /\ loc[r].rlCount = -1
          /\ pc[r] = "rate" => loc[r].hasTokens = "true" /\ loc[r].write = "ok")
  /\ [][RATE_LIMITS' # RATE_LIMITS => \E r \in Req : AdmittedLimiterStep(r)]_vars

\* a request denied 402 next to an admitted one of the same identity, whose
\* entry stands at the one admission
C15_Witness ==
  \E r1, r2 \in Req :
    /\ Identified(r1) /\ req[r2].userToken = req[r1].userToken
    /\ resp[r1] = Err402 /\ loc[r1].read = "ok"
    /\ loc[r2].rlCount = 0 /\ calls[r2].rl = 1
    /\ RATE_LIMITS[req[r1].userToken] # Absent
    /\ RATE_LIMITS[req[r1].userToken][1].count = 1

\* C16 as claimed: no step lowers the totalTokensUsed stored for an identity.
C16_Original ==
  [][\A u \in Users :
       IntegerValueOr0(ledger'[u].totalTokensUsed)
         >= IntegerValueOr0(ledger[u].totalTokensUsed)]_vars

\* C17: the tokensRemaining stored for an identity whose balance started at
\* 0 or above is 0 or above.
C17_NonNegative ==
  \A u \in Users :
    initUnits[u] >= 0 => IntegerValueOr0(ledger[u].tokensRemaining) >= 0

\* two requests that both read the last token have both written: the
\* balance stands at 0
C17_Witness ==
  \E r1, r2 \in Req :
    /\ r1 # r2 /\ Identified(r1) /\ req[r2].userToken = req[r1].userToken
    /\ loc[r1].observed = <<1>> /\ loc[r2].observed = <<1>>
    /\ loc[r1].write = "ok" /\ loc[r2].write = "ok"
    /\ ledger[req[r1].userToken].tokensRemaining = <<0>>

\* slot r's request has paid: its one PATCH succeeded and the balance stands
\* one below the value it read
Charged(r) ==
  /\ loc[r].write = "ok" /\ calls[r].writes = 1
  /\ ledger[req[r].userToken].tokensRemaining = <<loc[r].tokensRemaining - 1>>

\* C18: sequential requests. An identified request is at the limiter or at
\* the completion call only after it has paid; one answered 429 or 500 has
\* paid, and one answered 500 has also been counted by the limiter; and no
\* step raises a balance.
C18_ChargeBeforeAdmit ==
  /\ [](\A r \in Req : Identified(r) =>
          /\ pc[r] \in {"rate", "upstream"} => Charged(r)
          /\ (pc[r] = "done" /\ resp[r].status \in {429, 500}) => Charged(r)
          /\ (pc[r] = "upstream" \/ (pc[r] = "done" /\ resp[r].status = 500)) =>
               /\ calls[r].rl = 1
               /\ RATE_LIMITS[req[r].userToken] # Absent
               /\ RATE_LIMITS[req[r].userToken][1].count = loc[r].rlCount + 1)
  /\ [][\A u \in Users :
          IntegerValueOr0(ledger'[u].tokensRemaining)
            <= IntegerValueOr0(ledger[u].tokensRemaining)]_vars

\* ten requests admitted and an eleventh answered 429: eleven units are gone
C18_Witness ==
  \E r \in Req :
    /\ Identified(r) /\ pc[r] = "done" /\ resp[r] = Err429 /\ Charged(r)
    /\ initUnits[req[r].userToken] = SeqUnits
    /\ ledger[req[r].userToken].tokensRemaining = <<SeqUnits - maxRequests - 1>>

\* C19: a limiter step touches no other identity's entry; one that rejects
\* (429) found a used-up entry whose window has not passed and leaves the map
\* as it is; one that admits leaves count one above the count it found (1
\* when it opened a window) and keeps the resetTime of a window that has not
\* passed; and the step that finds now > resetTime admits.
C19_Step ==
  \A r \in Req : (pc[r] = "rate" /\ pc'[r] # "rate") =>
    LET u == req[r].userToken
        stored == RATE_LIMITS[u]
        passed == stored # Absent /\ now > stored[1].resetTime
    IN /\ \A v \in Users \ {u} : RATE_LIMITS'[v] = RATE_LIMITS[v]
       /\ resp'[r] = Err429 =>
            /\ RATE_LIMITS' = RATE_LIMITS
            /\ stored # Absent /\ ~passed /\ stored[1].count >= maxRequests
            /\ admitLog' = admitLog
       /\ resp'[r] # Err429 =>
            /\ RATE_LIMITS'[u] # Absent
            /\ RATE_LIMITS'[u][1].count =
                 (IF stored = Absent \/ passed THEN 1 ELSE stored[1].count + 1)
            /\ (stored # Absent /\ ~passed) =>
                 RATE_LIMITS'[u][1].resetTime = stored[1].resetTime
       /\ passed => resp'[r] # Err429

C19_RejectionFrame == [][C19_Step]_vars

\* one identity rejected, its used-up entry and the other identity's entry
\* as they were; the other identity has been admitted in the same window
C19_Witness ==
  \E r \in Req : \E v \in Users :
    /\ Identified(r) /\ v # req[r].userToken /\ resp[r] = Err429
    /\ RATE_LIMITS[req[r].userToken] # Absent
    /\ RATE_LIMITS[req[r].userToken][1].count = maxRequests
    /\ RATE_LIMITS[v] # Absent /\ RATE_LIMITS[v][1].count = 1

\* C20: with awaited calls that all settle, every invocation that has
\* started ends with a response; a response once given is not replaced and an
\* invocation has one exactly when it is over; and no invocation makes more
\* than one completion call.
C20_OneResponse ==
  /\ \A r \in Req : (pc[r] # "idle") ~> (pc[r] = "done")
  /\ [](\A r \in Req :
          /\ (pc[r] = "done") <=> (resp[r] # NoResponse)
          /\ calls[r].upstream <= 1)
  /\ [][\A r \in Req : resp[r] # NoResponse => resp'[r] = resp[r]]_vars

\* two invocations over, one after the completion API failed, one denied
C20_Witness ==
  \E r1, r2 \in Req :
    /\ pc[r1] = "done" /\ pc[r2] = "done"
    /\ resp[r1] = Err500 /\ calls[r1].upstream = 1 /\ loc[r1].upStatus = 429
    /\ resp[r2] = Err402

====
